---- MODULE Spec2Model ----
(***************************************************************************)
(* code-scribe (src/main.py): a directory tree of source files is turned   *)
(* into markdown documents (one per file, or one combined all_files.txt)   *)
(* plus a text rendering of the tree (directory_tree.txt).                 *)
(*                                                                         *)
(* Strings are sequences of characters; a character is a one-token string. *)
(* Two tokens stand for non-ASCII code points: "I_DOT" is U+0130 (capital  *)
(* I with dot above) and "COMB_DOT" is U+0307 (combining dot above).       *)
(* A path is a sequence of names, rooted at the working directory.         *)
(***************************************************************************)
EXTENDS Integers, Sequences, FiniteSets, TLC

VARIABLES
    pc,                   \* position of main / generate_markdown_from_directory
    tree,                 \* the files of the input tree before the run (relative paths)
    fs,                   \* the filesystem: path -> node
    cfg,                  \* the arguments generate_markdown_from_directory runs with
    ticked,               \* the labels ticked in the extension prompt
    stack,                \* os.walk: directories still to visit, one set per level
    root,                 \* os.walk: the directory being visited
    files,                \* os.walk: the files of root not yet looped over
    all_markdown_content, \* the fragments accumulated in single-file mode
    visited,              \* every included file, in the order the walk reached it
    readOutcome,          \* included file -> "ok" | "decode" | "error"
    written,              \* the per-file outputs written so far
    sx                    \* the string sanitise_filename is applied to

vars == <<pc, tree, fs, cfg, ticked, stack, root, files,
          all_markdown_content, visited, readOutcome, written, sx>>

----------------------------------------------------------------------------
(* Characters: Python's str.lower, str.strip and the re classes \w and \s. *)

LowerLetters == <<"a", "b", "c", "d", "e", "f", "g", "h", "i", "j", "k", "l", "m",
                  "n", "o", "p", "q", "r", "s", "t", "u", "v", "w", "x", "y", "z">>

UpperLetters == <<"A", "B", "C", "D", "E", "F", "G", "H", "I", "J", "K", "L", "M",
                  "N", "O", "P", "Q", "R", "S", "T", "U", "V", "W", "X", "Y", "Z">>

DigitChars == <<"0", "1", "2", "3", "4", "5", "6", "7", "8", "9">>

Range(s) == {s[i] : i \in 1..Len(s)}

IndexOf(s, c) == CHOOSE i \in 1..Len(s) : s[i] = c

\* str.lower on one character; U+0130 lowers to "i" followed by U+0307.
LowerChar(c) ==
    IF c \in Range(UpperLetters) THEN <<LowerLetters[IndexOf(UpperLetters, c)]>>
    ELSE IF c = "I_DOT" THEN <<"i", "COMB_DOT">>
    ELSE <<c>>

RECURSIVE Lower(_)
Lower(s) == IF s = <<>> THEN <<>> ELSE LowerChar(Head(s)) \o Lower(Tail(s))

\* re \w on str patterns: alphanumerics and the underscore; a combining
\* mark (category Mn) is not alphanumeric.
IsWord(c) ==
    c \in Range(LowerLetters) \cup Range(UpperLetters) \cup Range(DigitChars)
           \cup {"_", "I_DOT"}

\* re \s and the characters str.strip removes.
IsSpace(c) == c = " "

RECURSIVE LStrip(_)
LStrip(s) == IF s # <<>> /\ IsSpace(Head(s)) THEN LStrip(Tail(s)) ELSE s

RECURSIVE RStrip(_)
RStrip(s) ==
    IF s # <<>> /\ IsSpace(s[Len(s)]) THEN RStrip(SubSeq(s, 1, Len(s) - 1)) ELSE s

Strip(s) == RStrip(LStrip(s))

\* re.sub(r'[^\w\s-]', '_', s)
SubInvalid(s) ==
    [i \in 1..Len(s) |->
        IF IsWord(s[i]) \/ IsSpace(s[i]) \/ s[i] = "-" THEN s[i] ELSE "_"]

\* re.sub(r'[-\s]+', '_', s): every maximal run of hyphens and whitespace
\* becomes one underscore.
RECURSIVE CollapseRuns(_, _)
CollapseRuns(s, inRun) ==
    IF s = <<>> THEN <<>>
    ELSE IF Head(s) = "-" \/ IsSpace(Head(s))
         THEN (IF inRun THEN <<>> ELSE <<"_">>) \o CollapseRuns(Tail(s), TRUE)
         ELSE <<Head(s)>> \o CollapseRuns(Tail(s), FALSE)

sanitise_filename(filename) ==
    CollapseRuns(Lower(Strip(SubInvalid(filename))), FALSE)

----------------------------------------------------------------------------
(* os.path.splitext on a base name.                                        *)

LastDot(name) ==
    LET dots == {i \in 1..Len(name) : name[i] = "."}
    IN  IF dots = {} THEN 0 ELSE CHOOSE i \in dots : \A j \in dots : j <= i

\* The extension starts at the last dot, unless only dots precede it.
SplitExt(name) ==
    LET d == LastDot(name)
    IN  IF d > 0 /\ \E i \in 1..(d - 1) : name[i] # "."
        THEN SubSeq(name, d, Len(name))
        ELSE <<>>

----------------------------------------------------------------------------
(* Names and paths.                                                        *)

N_proj == <<"p", "r", "o", "j">>
N_out == <<"o", "u", "t">>
N_ghost == <<"g", "h", "o", "s", "t">>
N_git == <<".", "g", "i", "t">>
N_terraform == <<".", "t", "e", "r", "r", "a", "f", "o", "r", "m">>
N_node_modules == <<"n", "o", "d", "e", "_", "m", "o", "d", "u", "l", "e", "s">>
N_hooks == <<"h", "o", "o", "k", "s">>
N_a_py_txt == <<"a", "_", "p", "y", ".", "t", "x", "t">>
N_config == <<"c", "o", "n", "f", "i", "g">>
N_a_py == <<"a", ".", "p", "y">>
N_b_py == <<"b", ".", "p", "y">>
N_x_py == <<"x", ".", "p", "y">>
N_y_py == <<"y", ".", "p", "y">>
N_a_hyphen_b_py == <<"a", "-", "b", ".", "p", "y">>
N_a_under_b_py == <<"a", "_", "b", ".", "p", "y">>
N_B_PY == <<"B", ".", "P", "Y">>
N_README == <<"R", "E", "A", "D", "M", "E">>
N_Rc == <<".", "R", "c">>
N_rc_js == <<".", "r", "c", ".", "j", "s">>
N_n_b_c == <<"n", ".", "b", " ", "c">>
N_env == <<".", "e", "n", "v">>
N_DS_Store == <<".", "D", "S", "_", "S", "t", "o", "r", "e">>
N_all_files_txt == <<"a", "l", "l", "_", "f", "i", "l", "e", "s", ".", "t", "x", "t">>
N_directory_tree_txt == <<"d", "i", "r", "e", "c", "t", "o", "r", "y", "_",
                          "t", "r", "e", "e", ".", "t", "x", "t">>

Parent(p) == SubSeq(p, 1, Len(p) - 1)
Base(p) == p[Len(p)]

\* os.path.relpath(p, d) for p beneath d: the names below d, "/"-joined.
RECURSIVE JoinPath(_)
JoinPath(names) ==
    IF names = <<>> THEN <<>>
    ELSE IF Len(names) = 1 THEN names[1]
    ELSE names[1] \o <<"/">> \o JoinPath(Tail(names))

RelNames(p, d) == SubSeq(p, Len(d) + 1, Len(p))
relpath(p, d) == JoinPath(RelNames(p, d))

----------------------------------------------------------------------------
(* The filesystem. A node is a directory or a file; a file's data is a     *)
(* sequence of items, each [kind, text, tag, body]:                        *)
(*   "bytes"     the contents of a source file, named by text              *)
(*   "fragment"  "# File Name: <text>\n# File Contents:\n" and then body,  *)
(*               fenced as ```<tag> when tag is not empty, and "\n\n"      *)
(*   "sep"       the separator "---\n"                                     *)
(*   "line"      a line of the tree: the prefix tag, then the name text    *)
(*   "summary"   the line "\n<d> directories, <f> files"                   *)
(***************************************************************************)

Item(kind, text, tag, body) ==
    [kind |-> kind, text |-> text, tag |-> tag, body |-> body]

DirNode == [kind |-> "dir", data |-> <<>>]
FileNode(data) == [kind |-> "file", data |-> data]

Exists(f, p) == p \in DOMAIN f
IsDir(f, p) == p \in DOMAIN f /\ f[p].kind = "dir"
IsFile(f, p) == p \in DOMAIN f /\ f[p].kind = "file"

\* os.scandir(d): the entries of directory d.
scandir(f, d) == {p \in DOMAIN f : Len(p) = Len(d) + 1 /\ Parent(p) = d}

Prefixes(p) == {SubSeq(p, 1, k) : k \in 0..Len(p)}

\* os.makedirs(p, exist_ok=True) and Path.mkdir(parents=True, exist_ok=True)
\* raise when p or one of its parents exists and is not a directory.
MkdirsRaises(f, p) == \E q \in Prefixes(p) : IsFile(f, q)

Mkdirs(f, p) ==
    [q \in DOMAIN f \cup Prefixes(p) |-> IF q \in DOMAIN f THEN f[q] ELSE DirNode]

\* open(p, 'w') raises when p is a directory or its parent is no directory.
OpenWriteRaises(f, p) == IsDir(f, p) \/ ~IsDir(f, Parent(p))

WriteFile(f, p, data) ==
    [q \in DOMAIN f \cup {p} |-> IF q = p THEN FileNode(data) ELSE f[q]]

\* The filesystem holding the input tree t (files, by path relative to the
\* input directory) beneath the working directory <<>>.
InputDir == <<N_proj>>

AbsOf(rel) == InputDir \o rel

MkFs(t) ==
    LET filePaths == {AbsOf(rel) : rel \in t}
        dirPaths == {<<>>, InputDir} \cup UNION {Prefixes(Parent(p)) : p \in filePaths}
    IN  [p \in filePaths \cup dirPaths |->
            IF p \in dirPaths THEN DirNode
            ELSE FileNode(<<Item("bytes", relpath(p, InputDir), <<>>, <<>>)>>)]

----------------------------------------------------------------------------
(* should_exclude_directory, discover_extensions, select_extensions.       *)

default_exclude == {N_terraform, N_node_modules, N_git}

\* True iff the base name of path is a default or a user-supplied name.
should_exclude_directory(path, exclude_dirs) ==
    Base(path) \in default_exclude \cup exclude_dirs

\* The key discover_extensions counts a file under: the whole name of a
\* dotfile, as it is spelled, else the lowercased extension.
CatalogKey(name) ==
    IF name[1] = "." THEN name ELSE Lower(SplitExt(name))

\* _scan_directory: the files the scan counts, excluded entries skipped
\* and directories descended into.
RECURSIVE ScanDirectory(_, _, _)
ScanDirectory(f, directory, exclude_dirs) ==
    UNION {IF should_exclude_directory(e, exclude_dirs) THEN {}
           ELSE IF IsDir(f, e) THEN ScanDirectory(f, e, exclude_dirs)
           ELSE {e} : e \in scandir(f, directory)}

\* The (key, count) pairs of the catalog; their order plays no part below.
discover_extensions(f, input_dir, exclude_dirs) ==
    LET counted == ScanDirectory(f, input_dir, exclude_dirs)
        keys == {CatalogKey(Base(p)) : p \in counted}
    IN  {<<k, Cardinality({p \in counted : CatalogKey(Base(p)) = k})>> : k \in keys}

\* str(n) for a natural number n.
RECURSIVE DecStr(_)
DecStr(n) ==
    IF n < 10 THEN <<DigitChars[n + 1]>>
    ELSE DecStr(n \div 10) \o <<DigitChars[(n % 10) + 1]>>

\* f"{ext} ({count})"
ChoiceLabel(ext, count) == ext \o <<" ", "(">> \o DecStr(count) \o <<")">>

\* choice.split(" ")[0]: the text before the first space.
SplitFirst(choice) ==
    LET spaces == {i \in 1..Len(choice) : choice[i] = " "}
    IN  IF spaces = {} THEN choice
        ELSE SubSeq(choice, 1, (CHOOSE i \in spaces : \A j \in spaces : i <= j) - 1)

Choices(f, input_dir, exclude_dirs) ==
    {ChoiceLabel(kc[1], kc[2]) : kc \in discover_extensions(f, input_dir, exclude_dirs)}

\* select_extensions, given the labels the user leaves ticked.
select_extensions(answers) == {SplitFirst(choice) : choice \in answers}

----------------------------------------------------------------------------
(* generate_tree_output.                                                   *)

\* The code point of a character, as Python compares strings.
CharCode(c) ==
    IF c \in Range(LowerLetters) THEN 96 + IndexOf(LowerLetters, c)
    ELSE IF c \in Range(UpperLetters) THEN 64 + IndexOf(UpperLetters, c)
    ELSE IF c \in Range(DigitChars) THEN 47 + IndexOf(DigitChars, c)
    ELSE CASE c = " " -> 32
           [] c = "-" -> 45
           [] c = "." -> 46
           [] c = "/" -> 47
           [] c = "_" -> 95
           [] c = "I_DOT" -> 304
           [] c = "COMB_DOT" -> 775

RECURSIVE StrLess(_, _)
StrLess(a, b) ==
    IF b = <<>> THEN FALSE
    ELSE IF a = <<>> THEN TRUE
    ELSE IF Head(a) = Head(b) THEN StrLess(Tail(a), Tail(b))
    ELSE CharCode(Head(a)) < CharCode(Head(b))

\* The sort key (not e.is_dir(), e.name): directories first, then by name.
EntryLess(f, a, b) ==
    IF IsDir(f, a) # IsDir(f, b) THEN IsDir(f, a) ELSE StrLess(Base(a), Base(b))

RECURSIVE SortedEntries(_, _)
SortedEntries(f, S) ==
    IF S = {} THEN <<>>
    ELSE LET m == CHOOSE x \in S : \A y \in S \ {x} : EntryLess(f, x, y)
         IN  <<m>> \o SortedEntries(f, S \ {m})

\* '└── ' if is_last else '├── ', and the indent handed to the children:
\* "ELL" is '└── ', "TEE" is '├── ', "SPC" is four spaces, "BAR" is '│   '.
Connector(is_last) == IF is_last THEN "ELL" ELSE "TEE"
ChildIndent(is_last) == IF is_last THEN "SPC" ELSE "BAR"

\* is_last = i == len(entries) - 1, with i counted from 1 here.
IsLastEntry(i, entries) == i = Len(entries)

\* get_tree_structure: the (path, prefix) pairs of the entries from the
\* i-th on of a sorted level, each directory followed by its subtree.
RECURSIVE TreeFrom(_, _, _, _, _)
TreeFrom(f, entries, i, indent, exclude_dirs) ==
    IF i > Len(entries) THEN <<>>
    ELSE IF should_exclude_directory(entries[i], exclude_dirs)
         THEN TreeFrom(f, entries, i + 1, indent, exclude_dirs)
    ELSE LET is_last == IsLastEntry(i, entries)
             here == <<[path |-> entries[i],
                        prefix |-> indent \o <<Connector(is_last)>>]>>
             subtree ==
                 IF IsDir(f, entries[i])
                 THEN TreeFrom(f, SortedEntries(f, scandir(f, entries[i])), 1,
                               indent \o <<ChildIndent(is_last)>>, exclude_dirs)
                 ELSE <<>>
         IN  here \o subtree \o TreeFrom(f, entries, i + 1, indent, exclude_dirs)

get_tree_structure(f, path, exclude_dirs) ==
    TreeFrom(f, SortedEntries(f, scandir(f, path)), 1, <<>>, exclude_dirs)

\* The text written to directory_tree.txt: ".", one line per entry, and
\* the summary of the directories and files listed.
TreeText(f, directory, exclude_dirs) ==
    LET tree_structure == get_tree_structure(f, directory, exclude_dirs)
        n == Len(tree_structure)
        dir_count == Cardinality({i \in 1..n : IsDir(f, tree_structure[i].path)})
        file_count == Cardinality({i \in 1..n : IsFile(f, tree_structure[i].path)})
    IN  <<Item("line", <<".">>, <<>>, <<>>)>>
        \o [i \in 1..n |-> Item("line", Base(tree_structure[i].path),
                                tree_structure[i].prefix, <<>>)]
        \o <<Item("summary",
                  DecStr(dir_count) \o <<" directories, ">>
                      \o DecStr(file_count) \o <<" files">>,
                  <<>>, <<>>)>>

----------------------------------------------------------------------------
(* Bounds and the inputs of a run.                                         *)

MaxFiles == 2
SanMaxLen == 3

\* The files an input tree is drawn from, relative to the input directory.
CandFiles ==
    { <<N_a_py>>, <<N_a_hyphen_b_py>>, <<N_a_under_b_py>>, <<N_B_PY>>,
      <<N_README>>, <<N_Rc>>, <<N_rc_js>>, <<N_n_b_c>>, <<N_env>>,
      <<N_git, N_config>>, <<N_git, N_hooks, N_x_py>>,
      <<N_node_modules, N_y_py>>, <<N_a_py_txt, N_b_py>> }

Trees == {t \in SUBSET CandFiles : Cardinality(t) <= MaxFiles}

Cwd == <<>>

\* The command line: a path of <<>> is an argument left out.
ArgsSet ==
    [input_dir : {<<>>, <<N_proj>>, <<N_ghost>>},
     output_dir : {<<>>, <<N_out>>},
     extensions : {{}, {<<".", "P", "Y">>}, {N_Rc}},
     exclude_dir : {{}, {N_hooks}},
     single_file : BOOLEAN]

\* What the directory prompt returns: nothing, or the three answers.
PromptAnswers ==
    {[given |-> FALSE, input_dir |-> <<>>, output_dir |-> <<>>, single_file |-> FALSE]}
    \cup [given : {TRUE}, input_dir : {<<N_proj>>}, output_dir : {<<>>, <<N_out>>},
          single_file : BOOLEAN]

ReadOutcomes == {"ok", "decode", "error"}

NoCfg ==
    [input_dir |-> <<>>, output_dir |-> <<>>, extensions |-> {},
     single_file |-> FALSE, exclude_dirs |-> {}]

----------------------------------------------------------------------------
(* main.                                                                   *)

\* Lines 332-351: the directories and the mode, from the command line or,
\* without an input directory on it, from the prompt.
Resolve(args, answers) ==
    LET prompted == args.input_dir = <<>>
        has_input == IF prompted THEN answers.given ELSE TRUE
        input_dir == IF prompted THEN Cwd \o answers.input_dir ELSE Cwd \o args.input_dir
        output_dir_str == IF prompted THEN answers.output_dir ELSE args.output_dir
        single_file == IF prompted THEN answers.single_file ELSE args.single_file
    IN  [has_input |-> has_input,
         input_dir |-> input_dir,
         has_output |-> output_dir_str # <<>> \/ has_input,
         output_dir |-> IF output_dir_str = <<>>
                        THEN (IF has_input THEN Cwd \o <<Base(input_dir)>> ELSE <<>>)
                        ELSE Cwd \o output_dir_str,
         single_file |-> single_file,
         exclude_dirs |-> args.exclude_dir]

\* Lines 353-359: the directories are resolved and the input is a directory.
DirsOk(f, r) == r.has_input /\ r.has_output /\ IsDir(f, r.input_dir)

\* Lines 361-365: the selection, lowercased from the command line, or
\* parsed back from the labels left ticked in the prompt.
Selected(args, answers) ==
    IF args.extensions # {} THEN {Lower(ext) : ext \in args.extensions}
    ELSE select_extensions(answers)

\* The labels the user may leave ticked: none when --extensions is given.
TickSets(f, args, r) ==
    IF args.extensions # {} \/ ~DirsOk(f, r) THEN {{}}
    ELSE SUBSET Choices(f, r.input_dir, r.exclude_dirs)

CfgOf(r, selected) ==
    [input_dir |-> r.input_dir, output_dir |-> r.output_dir, extensions |-> selected,
     single_file |-> r.single_file, exclude_dirs |-> r.exclude_dirs]

\* A main that creates the output directory before it validates anything.
MainRejectAfterMakedirs ==
    /\ pc = "main"
    /\ \E args \in ArgsSet, answers \in PromptAnswers :
         LET r == Resolve(args, answers)
         IN  \E tick \in TickSets(fs, args, r) :
               /\ ~DirsOk(fs, r) \/ Selected(args, tick) = {}
               /\ ticked' = tick
               /\ cfg' = CfgOf(r, IF DirsOk(fs, r) THEN Selected(args, tick) ELSE {})
               /\ fs' = IF r.has_output /\ ~MkdirsRaises(fs, r.output_dir)
                        THEN Mkdirs(fs, r.output_dir)
                        ELSE fs
    /\ pc' = "exit_error"
    /\ UNCHANGED <<tree, stack, root, files, all_markdown_content,
                   visited, readOutcome, written, sx>>

\* main returns on a configuration error (lines 353-355, 357-359, 367-369).
MainReject ==
    /\ pc = "main"
    /\ \E args \in ArgsSet, answers \in PromptAnswers :
         LET r == Resolve(args, answers)
         IN  \E tick \in TickSets(fs, args, r) :
               /\ ~DirsOk(fs, r) \/ Selected(args, tick) = {}
               /\ ticked' = tick
               /\ cfg' = CfgOf(r, IF DirsOk(fs, r) THEN Selected(args, tick) ELSE {})
    /\ pc' = "exit_error"
    /\ UNCHANGED <<tree, fs, stack, root, files, all_markdown_content,
                   visited, readOutcome, written, sx>>

\* main calls generate_markdown_from_directory (line 371), which creates
\* the output directory (line 230) and starts the walk (line 234).
MainRun ==
    /\ pc = "main"
    /\ \E args \in ArgsSet, answers \in PromptAnswers :
         LET r == Resolve(args, answers)
         IN  \E tick \in TickSets(fs, args, r) :
               /\ DirsOk(fs, r) /\ Selected(args, tick) # {}
               /\ ticked' = tick
               /\ cfg' = CfgOf(r, Selected(args, tick))
               /\ IF MkdirsRaises(fs, r.output_dir)
                  THEN pc' = "raised_230" /\ fs' = fs /\ stack' = <<>>
                  ELSE /\ pc' = "walk"
                       /\ fs' = Mkdirs(fs, r.output_dir)
                       /\ stack' = <<{r.input_dir}>>
    /\ UNCHANGED <<tree, root, files, all_markdown_content,
                   visited, readOutcome, written, sx>>

----------------------------------------------------------------------------
(* generate_markdown_from_directory.                                       *)

SkipNames == {N_DS_Store, N_env}

\* Line 243.
ExtOf(name) == Lower(SplitExt(name))

\* Line 244: ext in extensions or (not ext and file in extensions).
Matches(name, extensions) ==
    ExtOf(name) \in extensions \/ (ExtOf(name) = <<>> /\ name \in extensions)

\* Lines 242-244: the file passes the name guard and the extension filter.
Included(name, extensions) == name \notin SkipNames /\ Matches(name, extensions)

\* Line 249: ext[1:].
Language(name) == IF ExtOf(name) = <<>> THEN <<>> ELSE Tail(ExtOf(name))

\* Lines 67-72 and 262-267.
Fragment(rel_path, language, file_contents) ==
    Item("fragment", rel_path, language, file_contents)

\* Lines 246-248 and 252-253: output_dir / rel_path, its last name replaced
\* by the sanitised relative path and ".txt".
OutputPath(file, input_dir, output_dir) ==
    output_dir \o Parent(RelNames(file, input_dir))
        \o <<sanitise_filename(relpath(file, input_dir)) \o <<".", "t", "x", "t">>>>

Separator == Item("sep", <<"-", "-", "-", "\n">>, <<>>, <<>>)

\* A join that also ends every part with the separator.
RECURSIVE JoinWithTrailing(_, _)
JoinWithTrailing(sep, parts) ==
    IF parts = <<>> THEN <<>>
    ELSE <<parts[1], sep>> \o JoinWithTrailing(sep, Tail(parts))

\* sep.join(parts)
RECURSIVE JoinWith(_, _)
JoinWith(sep, parts) ==
    IF parts = <<>> THEN <<>>
    ELSE IF Len(parts) = 1 THEN <<parts[1]>>
    ELSE <<parts[1], sep>> \o JoinWith(sep, Tail(parts))

\* Line 237: the files of an excluded root are skipped; the walk goes on.
FilesOfRoot(f, d, exclude_dirs) ==
    IF should_exclude_directory(d, exclude_dirs) THEN {}
    ELSE {e \in scandir(f, d) : IsFile(f, e)}

\* os.walk yields the next directory (line 234): it is listed, its
\* subdirectories are queued before the directories still waiting, and
\* the loop over its files starts (lines 236-241).
WalkDir ==
    /\ pc = "walk" /\ files = {} /\ stack # <<>>
    /\ \E d \in stack[1] :
         LET waiting == IF stack[1] = {d} THEN Tail(stack)
                        ELSE <<stack[1] \ {d}>> \o Tail(stack)
             dirs == {e \in scandir(fs, d) : IsDir(fs, e)}
         IN  /\ stack' = IF dirs = {} THEN waiting ELSE <<dirs>> \o waiting
             /\ root' = d
             /\ files' = FilesOfRoot(fs, d, cfg.exclude_dirs)
    /\ UNCHANGED <<pc, tree, fs, cfg, ticked, all_markdown_content,
                   visited, readOutcome, written, sx>>

\* Lines 255 and 64-79: generate_markdown_from_file; every failure of the
\* read or of the write is caught.
generate_markdown_from_file(f, input_filepath, output_filepath, rel_path, language, outcome) ==
    IF outcome = "ok" /\ ~OpenWriteRaises(f, output_filepath)
    THEN WriteFile(f, output_filepath,
                   <<Fragment(rel_path, language, f[input_filepath].data)>>)
    ELSE f

\* Lines 258-273: the fragments after the file was read, or failed to be.
Accumulate(content, f, input_filepath, rel_path, language, outcome) ==
    IF outcome = "ok"
    THEN Append(content, Fragment(rel_path, language, f[input_filepath].data))
    ELSE content

\* One pass of the loop over the files of root (lines 241-273).
ProcessFile ==
    /\ pc = "walk" /\ files # {}
    /\ \E file \in files, outcome \in ReadOutcomes :
         LET name == Base(file)
             rel_path == relpath(file, cfg.input_dir)
             language == Language(name)
             output_filepath == OutputPath(file, cfg.input_dir, cfg.output_dir)
         IN  /\ files' = files \ {file}
             /\ IF ~Included(name, cfg.extensions)
                THEN /\ outcome = "ok"
                     /\ UNCHANGED <<pc, fs, all_markdown_content, visited,
                                    readOutcome, written>>
                ELSE IF ~cfg.single_file
                THEN IF MkdirsRaises(fs, Parent(output_filepath))
                     THEN /\ outcome = "ok"
                          /\ pc' = "raised_254"
                          /\ visited' = Append(visited, file)
                          /\ UNCHANGED <<fs, all_markdown_content, readOutcome, written>>
                     ELSE LET made == Mkdirs(fs, Parent(output_filepath))
                          IN  /\ fs' = generate_markdown_from_file(
                                           made, file, output_filepath, rel_path,
                                           language, outcome)
                              /\ written' =
                                    IF outcome = "ok"
                                       /\ ~OpenWriteRaises(made, output_filepath)
                                    THEN written \cup {output_filepath}
                                    ELSE written
                              /\ visited' = Append(visited, file)
                              /\ readOutcome' = (file :> outcome) @@ readOutcome
                              /\ UNCHANGED <<pc, all_markdown_content>>
                ELSE /\ all_markdown_content' =
                            Accumulate(all_markdown_content, fs, file, rel_path,
                                       language, outcome)
                     /\ visited' = Append(visited, file)
                     /\ readOutcome' = (file :> outcome) @@ readOutcome
                     /\ UNCHANGED <<pc, fs, written>>
    /\ UNCHANGED <<tree, cfg, ticked, stack, root, sx>>

\* Lines 276-280: after the walk, single-file mode writes all_files.txt.
AllFilesPath(output_dir) == output_dir \o <<N_all_files_txt>>

AllFilesText(content) == JoinWith(Separator, content)

WalkEnd ==
    /\ pc = "walk" /\ files = {} /\ stack = <<>>
    /\ IF ~cfg.single_file
       THEN pc' = "tree" /\ fs' = fs
       ELSE IF OpenWriteRaises(fs, AllFilesPath(cfg.output_dir))
       THEN pc' = "raised_278" /\ fs' = fs
       ELSE /\ pc' = "tree"
            /\ fs' = WriteFile(fs, AllFilesPath(cfg.output_dir),
                               AllFilesText(all_markdown_content))
    /\ UNCHANGED <<tree, cfg, ticked, stack, root, files, all_markdown_content,
                   visited, readOutcome, written, sx>>

\* Line 282 and generate_tree_output (lines 119-135).
TreePath(output_dir) == output_dir \o <<N_directory_tree_txt>>

WriteTree ==
    /\ pc = "tree"
    /\ IF OpenWriteRaises(fs, TreePath(cfg.output_dir))
       THEN pc' = "raised_134" /\ fs' = fs
       ELSE /\ pc' = "done"
            /\ fs' = WriteFile(fs, TreePath(cfg.output_dir),
                               TreeText(fs, cfg.input_dir, cfg.exclude_dirs))
    /\ UNCHANGED <<tree, cfg, ticked, stack, root, files, all_markdown_content,
                   visited, readOutcome, written, sx>>

Init ==
    /\ pc = "main"
    /\ tree \in Trees
    /\ fs = MkFs(tree)
    /\ cfg = NoCfg
    /\ ticked = {}
    /\ stack = <<>>
    /\ root = <<>>
    /\ files = {}
    /\ all_markdown_content = <<>>
    /\ visited = <<>>
    /\ readOutcome = <<>>
    /\ written = {}
    /\ sx = <<>>

Next == MainReject \/ MainRun \/ WalkDir \/ ProcessFile \/ WalkEnd \/ WriteTree

Spec == Init /\ [][Next]_vars

----------------------------------------------------------------------------
(* sanitise_filename applied to a string, and then to its own result.      *)

SanAlphabet == {"a", "A", "_", "-", " ", ".", "I_DOT"}

SanInputs == UNION {[1..n -> SanAlphabet] : n \in 0..SanMaxLen}

SanInit ==
    /\ pc = "sanitise"
    /\ sx \in {<<x>> : x \in SanInputs}
    /\ tree = {}
    /\ fs = MkFs({})
    /\ cfg = NoCfg
    /\ ticked = {}
    /\ stack = <<>>
    /\ root = <<>>
    /\ files = {}
    /\ all_markdown_content = <<>>
    /\ visited = <<>>
    /\ readOutcome = <<>>
    /\ written = {}

\* sx grows by the result of sanitising its last element.
SanApply ==
    /\ pc = "sanitise" /\ Len(sx) < 3
    /\ sx' = Append(sx, sanitise_filename(sx[Len(sx)]))
    /\ UNCHANGED <<pc, tree, fs, cfg, ticked, stack, root, files,
                   all_markdown_content, visited, readOutcome, written>>

SanNext == SanApply

SpecSan == SanInit /\ [][SanNext]_vars

----------------------------------------------------------------------------
(* What the claims speak of.                                               *)

Fs0 == MkFs(tree)

Ran == pc \notin {"main", "exit_error", "sanitise"}

ExclusionSet == default_exclude \cup cfg.exclude_dirs

\* The file rel lies beneath a directory whose name is excluded.
BeneathExcluded(rel) == \E k \in 1..(Len(rel) - 1) : rel[k] \in ExclusionSet

\* No name on the way to rel, nor its own, is excluded.
NotExcluded(rel) == \A k \in 1..Len(rel) : rel[k] \notin ExclusionSet

VisitedSet == {visited[i] : i \in 1..Len(visited)}

DecodeFailed == {f \in DOMAIN readOutcome : readOutcome[f] = "decode"}

\* The files the walk loops over and lets through the filter: those whose
\* own directory does not carry an excluded name.
WalkIncluded ==
    {AbsOf(rel) : rel \in {r \in tree :
        /\ ~should_exclude_directory(Parent(AbsOf(r)), cfg.exclude_dirs)
        /\ Included(Base(r), cfg.extensions)}}

----------------------------------------------------------------------------
(* C1: no file beneath a directory whose name is in the exclusion set, at  *)
(* any depth below it, is rendered: it gets no per-file output and adds    *)
(* no fragment to all_files.txt.                                           *)
C1_ExcludedNeverRendered ==
    Ran =>
      \A rel \in tree :
        BeneathExcluded(rel) =>
          /\ AbsOf(rel) \notin VisitedSet
          /\ OutputPath(AbsOf(rel), cfg.input_dir, cfg.output_dir) \notin written
          /\ \A i \in 1..Len(all_markdown_content) :
                all_markdown_content[i].text # JoinPath(rel)

(* C2: in per-file mode the finished run has written as many distinct      *)
(* outputs as there are input files matching the selection after           *)
(* exclusion, less those that failed to decode; two distinct included      *)
(* files never share an output path.                                       *)
MatchingAfterExclusion ==
    {AbsOf(rel) : rel \in {r \in tree : NotExcluded(r) /\ Included(Base(r), cfg.extensions)}}

C2_OneOutputPerIncludedFile ==
    (Ran /\ ~cfg.single_file) =>
      /\ \A f, g \in MatchingAfterExclusion \cap VisitedSet :
            f # g => OutputPath(f, cfg.input_dir, cfg.output_dir)
                        # OutputPath(g, cfg.input_dir, cfg.output_dir)
      /\ pc = "done" =>
            Cardinality(written)
              = Cardinality(MatchingAfterExclusion)
                - Cardinality(MatchingAfterExclusion \cap DecodeFailed)

(* C3: in single-file mode all_files.txt holds exactly one fragment per    *)
(* included file that was read, in the order the walk reached them, with   *)
(* the separator "---\n" between consecutive fragments and none before the *)
(* first or after the last; files that failed to decode or to be read add  *)
(* nothing.                                                                *)
ReadOk(f) == f \in DOMAIN readOutcome /\ readOutcome[f] = "ok"

ReadInOrder == SelectSeq(visited, ReadOk)

C3_AllFilesIsJoinedFragments ==
    (pc \in {"tree", "done"} /\ cfg.single_file) =>
      LET text == fs[AllFilesPath(cfg.output_dir)].data
          n == Len(ReadInOrder)
      IN  /\ VisitedSet = WalkIncluded
          /\ Len(visited) = Cardinality(VisitedSet)
          /\ Len(text) = IF n = 0 THEN 0 ELSE 2 * n - 1
          /\ \A i \in 1..n :
                LET f == ReadInOrder[i]
                IN  text[2 * i - 1] =
                        Fragment(relpath(f, cfg.input_dir), Language(Base(f)), Fs0[f].data)
          /\ \A i \in 1..(n - 1) : text[2 * i] = Separator

C3_Witness ==
    /\ pc = "done" /\ cfg.single_file
    /\ Len(ReadInOrder) = 2
    /\ Len(fs[AllFilesPath(cfg.output_dir)].data) = 3

(* C4: directory_tree.txt holds the rendering of the input tree as it was  *)
(* before the run, whatever the selection, the mode and the output         *)
(* directory: files the run wrote appear neither in it nor in its counts.  *)
C4_TreeIsOfTheInputBeforeTheRun ==
    pc = "done" =>
      fs[TreePath(cfg.output_dir)].data = TreeText(Fs0, cfg.input_dir, cfg.exclude_dirs)

(* C5: at every level of the tree the last entry rendered carries '└── '   *)
(* and every other one '├── '; the children of an entry are indented by    *)
(* four spaces when it was rendered as a last sibling, by '│   ' otherwise. *)
TreeLines ==
    LET text == fs[TreePath(cfg.output_dir)].data
    IN  SubSeq(text, 2, Len(text) - 1)

Depth(line) == Len(line.tag)

\* No later line of the same level comes before the level is left.
LastOfLevel(lines, i) ==
    \A j \in (i + 1)..Len(lines) :
        Depth(lines[j]) = Depth(lines[i]) =>
            \E k \in (i + 1)..(j - 1) : Depth(lines[k]) < Depth(lines[i])

ParentLine(lines, j) ==
    CHOOSE p \in 1..(j - 1) :
        /\ Depth(lines[p]) = Depth(lines[j]) - 1
        /\ \A q \in (p + 1)..(j - 1) : Depth(lines[q]) >= Depth(lines[j])

C5_ConnectorsFollowRenderedSiblings ==
    pc = "done" =>
      \A i \in 1..Len(TreeLines) :
        LET line == TreeLines[i]
            d == Depth(line)
        IN  /\ line.tag[d] = (IF LastOfLevel(TreeLines, i) THEN "ELL" ELSE "TEE")
            /\ d > 1 =>
                 LET up == TreeLines[ParentLine(TreeLines, i)]
                 IN  SubSeq(line.tag, 1, d - 1)
                       = SubSeq(up.tag, 1, d - 2)
                         \o <<IF up.tag[d - 1] = "ELL" THEN "SPC" ELSE "BAR">>

(* C6: a failure while one included file is processed (decoding, reading,  *)
(* creating the parent directory of its output, writing its output) never  *)
(* aborts the walk: every other included file is still processed and       *)
(* directory_tree.txt is written afterwards.                               *)
C6_PerFileFailureNeverAborts ==
    /\ pc # "raised_254"
    /\ (Ran /\ pc \notin {"walk", "tree"}) =>
          /\ pc = "done"
          /\ VisitedSet = WalkIncluded
          /\ IsFile(fs, TreePath(cfg.output_dir))

(* C7: when main ends in a configuration error nothing on the filesystem   *)
(* has changed: the output directory is not created and neither            *)
(* all_files.txt, a per-file output nor directory_tree.txt is written.     *)
C7_ConfigErrorMutatesNothing ==
    pc = "exit_error" =>
      /\ fs = Fs0
      /\ written = {}
      /\ ~Exists(fs, Cwd \o <<N_out>>)
      /\ \A p \in DOMAIN fs \ {<<>>} : Base(p) \notin {N_all_files_txt, N_directory_tree_txt}

\* No extension left ticked for a tree that has files, with the output
\* directory named on the command line.
C7_Witness ==
    /\ pc = "exit_error"
    /\ tree # {}
    /\ cfg.input_dir = InputDir
    /\ cfg.output_dir = Cwd \o <<N_out>>
    /\ cfg.extensions = {}

(* C8: sanitise_filename is idempotent: sanitising a sanitised string      *)
(* gives that string back.                                                 *)
C8_SanitiseIdempotent ==
    (pc = "sanitise" /\ Len(sx) = 3) => sx[3] = sx[2]

(* C9: extension matching ignores letter case: every key of the catalog    *)
(* and every element of the selection is lowercase, and a file whose key   *)
(* (its extension, or the whole name of a dotfile) equals a selected key   *)
(* but for letter case is included, for a selection given with             *)
(* --extensions and for one made from the catalog alike.                   *)
Catalog == discover_extensions(Fs0, cfg.input_dir, cfg.exclude_dirs)

\* The files the claims quantify over: not excluded, and not one of the
\* two names the content pass always skips.
Eligible == {rel \in tree : NotExcluded(rel) /\ Base(rel) \notin SkipNames}

C9_MatchingIgnoresCase ==
    pc = "done" =>
      /\ \A kc \in Catalog : kc[1] = Lower(kc[1])
      /\ \A ext \in cfg.extensions : ext = Lower(ext)
      /\ \A rel \in Eligible :
            (\E ext \in cfg.extensions : Lower(CatalogKey(Base(rel))) = Lower(ext))
                => AbsOf(rel) \in VisitedSet

(* C10: the catalog and the pipeline agree on keys: for a selection made   *)
(* from the catalog, through the "key (count)" labels and back, a file     *)
(* that is not excluded and is neither .DS_Store nor .env is processed     *)
(* exactly when the key it was counted under is among those selected.      *)
LabelOf(key) ==
    ChoiceLabel(key, (CHOOSE kc \in Catalog : kc[1] = key)[2])

C10_CatalogAndPipelineAgree ==
    (pc = "done" /\ ticked # {}) =>
      \A rel \in Eligible :
        AbsOf(rel) \in VisitedSet <=> LabelOf(CatalogKey(Base(rel))) \in ticked

====
